---- MODULE Spec2Model ----
(***************************************************************************)
(* A model of book-catalogue's main.py: the book list parser, the Google   *)
(* Books payload normalisation, the lazy lookup generator and the          *)
(* reporting loop of main.                                                  *)
(*                                                                         *)
(* Encoding of Python values:                                              *)
(*   str            a sequence of one-character strings                    *)
(*   Optional[T]    <<>> for None, <<v>> for the value v                   *)
(*   dict           a function whose DOMAIN is the set of keys present     *)
(*   list           a sequence                                             *)
(***************************************************************************)
EXTENDS Integers, Sequences, FiniteSets, TLC

VARIABLES
    pc,           \* position of the run: parse, fetch, loop, get, yield, done, error
    file,         \* file.readlines(): the lines of the book list file
    lines,        \* the iterator over the lines: index of the next line
    result,       \* the list built by _parse_book_titles_file
    book_titles,  \* main's book_titles: None until the parser returns
    error,        \* the exception that ended the run, if any
    token,        \* credentials.token
    refreshes,    \* number of completed credentials.refresh calls
    i,            \* index of the book the generator's for loop is at
    requests,     \* the GET requests issued so far
    responses,    \* the HTTP responses received so far
    pending,      \* the pairs the current loop iteration still has to yield
    yielded,      \* the pairs main has received from the generator
    log,          \* the log lines emitted by main
    data,         \* the volumeInfo payload handed to from_google_book_api
    book          \* the record from_google_book_api returned

vars == <<pc, file, lines, result, book_titles, error, token, refreshes, i,
          requests, responses, pending, yielded, log, data, book>>

parseVars == <<file, lines, result, book_titles>>
fetchVars == <<token, refreshes, i, requests, responses, pending, yielded>>
normVars  == <<data, book>>

None == <<>>
Some(v) == <<v>>

Range(s) == {s[k] : k \in DOMAIN s}

-----------------------------------------------------------------------------
(* Bounds of the model *)

MaxLines == 5     \* lines of a generated book list file (parser runs)
MaxMainLines == 4 \* lines of a generated book list file (end-to-end runs)
MaxKeys  == 2     \* keys present in a generated volumeInfo payload
MaxIds   == 2     \* entries of a generated industryIdentifiers list
MaxItems == 2     \* entries of a generated "items" array

-----------------------------------------------------------------------------
(* Text: str.strip and str.split *)

IsSpace(c) == c \in {" ", "\t", "\n"}

RECURSIVE lstrip(_)
lstrip(s) ==
    IF s = <<>> THEN s
    ELSE IF IsSpace(Head(s)) THEN lstrip(Tail(s)) ELSE s

RECURSIVE rstrip(_)
rstrip(s) ==
    IF s = <<>> THEN s
    ELSE IF IsSpace(s[Len(s)]) THEN rstrip(SubSeq(s, 1, Len(s) - 1)) ELSE s

strip(s) == rstrip(lstrip(s))

\* s.split(sep): cut at the leftmost occurrence of sep, then split the rest
RECURSIVE split(_, _)
split(s, sep) ==
    LET n == Len(sep)
        hits == {k \in 1..(Len(s) - n + 1) : SubSeq(s, k, k + n - 1) = sep}
    IN  IF hits = {} THEN <<s>>
        ELSE LET k == CHOOSE h \in hits : \A g \in hits : h <= g
             IN  <<SubSeq(s, 1, k - 1)>> \o split(SubSeq(s, k + n, Len(s)), sep)

\* list(set(xs)): the distinct elements of xs, in an order the hash decides
list_of_set(xs) ==
    LET S == Range(xs)
        n == Cardinality(S)
    IN  {p \in [1..n -> S] : Range(p) = S}

AuthorSeparator == <<";", " ">>

-----------------------------------------------------------------------------
(* The Book dataclass *)

EmptyPayload == <<>>

BookFields ==
    {"title", "authors", "publisher", "publishedDate", "description",
     "industryIdentifiers", "readingModes", "pageCount", "printType",
     "categories", "averageRating", "ratingsCount", "maturityRating",
     "imageLinks", "language", "previewLink"}

\* Book(title=title, authors=authors): every other field keeps its default
Book(title, authors) ==
    [f \in BookFields |->
        IF f = "title" THEN Some(title)
        ELSE IF f = "authors" THEN Some(authors)
        ELSE None]

-----------------------------------------------------------------------------
(* _get_next_line and _parse_book_titles_file *)

\* variant: blank lines are not skipped
get_next_line_keeps_blank(f, p) ==
    IF p > Len(f) THEN [line |-> None, lines |-> p]
    ELSE [line |-> Some(strip(f[p])), lines |-> p + 1]

\* the next non-blank line, stripped, and the iterator after it;
\* None once the iterator is exhausted
RECURSIVE get_next_line(_, _)
get_next_line(f, p) ==
    IF p > Len(f) THEN [line |-> None, lines |-> p]
    ELSE LET line == strip(f[p])
         IN  IF line = <<>> THEN get_next_line(f, p + 1)
             ELSE [line |-> Some(line), lines |-> p + 1]

NextTitle == get_next_line(file, lines)
NextAuthors == get_next_line(file, NextTitle.lines)

-----------------------------------------------------------------------------
(* Input: the lines a book list file is made of *)

LineNewline == <<"\n">>
LineSpaces  == <<" ", "\t", "\n">>
LineDune    == <<" ", "D", "u", "n", "e", " ", "\n">>
LineEmma    == <<"E", "m", "m", "a", "\n">>
LineABA     == <<"A", ";", " ", "B", ";", " ", "A", "\n">>
LineFrank   == <<"F", "r", "a", "n", "k", " ", "H", "e", "r", "b", "e", "r", "t", "\n">>

Lines == {LineNewline, LineSpaces, LineDune, LineEmma, LineABA, LineFrank}

SeqsUpTo(S, n) == UNION {[1..m -> S] : m \in 0..n}

\* the files of the end-to-end runs: fewer lines, fewer kinds of line
MainLines == {LineNewline, LineDune, LineFrank}

-----------------------------------------------------------------------------
(* _parse_book_titles_file, one action per pass of its while loop *)

\* a line of the log: its kind and the title it names, if any
LogLine(kind, title) == [kind |-> kind, title |-> title]

\* lines 131-136: a title and its authors line are read, a stub is appended
ParseRecord ==
    /\ pc = "parse"
    /\ NextTitle.line # None
    /\ NextAuthors.line # None
    /\ \E authors \in list_of_set(split(NextAuthors.line[1], AuthorSeparator)) :
          result' = Append(result, Book(NextTitle.line[1], authors))
    /\ lines' = NextAuthors.lines
    /\ UNCHANGED <<pc, file, book_titles, error, log>>
    /\ UNCHANGED <<fetchVars, normVars>>

\* lines 132-133, 137 and main 208-209: no title is left, the list is returned
\* and main logs its length
ParseReturn ==
    /\ pc = "parse"
    /\ NextTitle.line = None
    /\ lines' = NextTitle.lines
    /\ book_titles' = Some(result)
    /\ log' = Append(log, LogLine("COUNT", None))
    /\ pc' = "fetch"
    /\ UNCHANGED <<file, result, error>>
    /\ UNCHANGED <<fetchVars, normVars>>

\* variant: a title without an authors line is dropped and the list returned
ParseRaise_drops_title ==
    /\ pc = "parse"
    /\ get_next_line(file, lines).line # None
    /\ get_next_line(file, get_next_line(file, lines).lines).line = None
    /\ lines' = Len(file) + 1
    /\ book_titles' = Some(result)
    /\ log' = Append(log, LogLine("COUNT", None))
    /\ pc' = "fetch"
    /\ UNCHANGED <<file, result, error>>
    /\ UNCHANGED <<fetchVars, normVars>>

\* lines 134-135: the title has no authors line, None.split raises
ParseRaise ==
    /\ pc = "parse"
    /\ NextTitle.line # None
    /\ NextAuthors.line = None
    /\ lines' = NextAuthors.lines
    /\ error' = "AttributeError"
    /\ pc' = "error"
    /\ UNCHANGED <<file, result, book_titles, log>>
    /\ UNCHANGED <<fetchVars, normVars>>

NextParse == ParseRecord \/ ParseReturn \/ ParseRaise


InitRun ==
    /\ pc = "parse"
    /\ lines = 1
    /\ result = <<>>
    /\ book_titles = None
    /\ error = "none"
    /\ token = None
    /\ refreshes = 0
    /\ i = 0
    /\ requests = <<>>
    /\ responses = <<>>
    /\ pending = <<>>
    /\ yielded = <<>>
    /\ log = <<>>
    /\ data = EmptyPayload
    /\ book = None

\* every file of at most MaxLines lines
InitParse == file \in SeqsUpTo(Lines, MaxLines) /\ InitRun

SpecParse == InitParse /\ [][NextParse]_vars

-----------------------------------------------------------------------------
(* dict *)

\* d.get(k, None)
Get(d, k) == IF k \in DOMAIN d THEN Some(d[k]) ELSE None

\* the dict d with d[k] = v
Put(d, k, v) == [x \in DOMAIN d \cup {k} |-> IF x = k THEN v ELSE d[x]]

-----------------------------------------------------------------------------
(* IndustryIdentifier, ReadingMode, ImageLink *)

\* the loop of IndustryIdentifier.__init__ over the first n identifiers
RECURSIVE ScanIdentifiers(_, _)
ScanIdentifiers(ids, n) ==
    IF n = 0 THEN [isbn_10 |-> None, isbn_13 |-> None]
    ELSE LET self == ScanIdentifiers(ids, n - 1)
             identifier == ids[n]
         IN  IF identifier["type"] = "ISBN_10"
                 THEN [self EXCEPT !.isbn_10 = Some(identifier["identifier"])]
             ELSE IF identifier["type"] = "ISBN_13"
                 THEN [self EXCEPT !.isbn_13 = Some(identifier["identifier"])]
             ELSE self

IndustryIdentifier(industry_identifiers) ==
    IF industry_identifiers = None
        THEN [isbn_10 |-> None, isbn_13 |-> None]
    ELSE ScanIdentifiers(industry_identifiers[1], Len(industry_identifiers[1]))

\* variant: a missing readingModes group gets False flags
ReadingMode_defaults_false(reading_modes) ==
    IF reading_modes = None
        THEN [text |-> Some(FALSE), image |-> Some(FALSE)]
    ELSE [text  |-> Get(reading_modes[1], "text"),
          image |-> Get(reading_modes[1], "image")]

ReadingMode(reading_modes) ==
    IF reading_modes = None
        THEN [text |-> None, image |-> None]
    ELSE [text  |-> Get(reading_modes[1], "text"),
          image |-> Get(reading_modes[1], "image")]

ImageLink(image_links) ==
    IF image_links = None
        THEN [thumbnail |-> None, small_thumbnail |-> None]
    ELSE [thumbnail       |-> Get(image_links[1], "thumbnail"),
          small_thumbnail |-> Get(image_links[1], "small_thumbnail")]

-----------------------------------------------------------------------------
(* Book.from_google_book_api *)

\* fields(Book)
Fields == BookFields

\* variant: every key of the payload is copied, not only the fields of Book
from_google_book_api_copies_all(payload) ==
    LET d == [name \in Fields \cup DOMAIN payload |-> Get(payload, name)]
    IN  [d EXCEPT
            !["industryIdentifiers"] = Some(IndustryIdentifier(d["industryIdentifiers"])),
            !["readingModes"] = Some(ReadingMode(d["readingModes"])),
            !["imageLinks"] = Some(ImageLink(d["imageLinks"]))]

from_google_book_api(payload) ==
    LET d == [name \in Fields |-> Get(payload, name)]
    IN  [d EXCEPT
            !["industryIdentifiers"] = Some(IndustryIdentifier(d["industryIdentifiers"])),
            !["readingModes"] = Some(ReadingMode(d["readingModes"])),
            !["imageLinks"] = Some(ImageLink(d["imageLinks"]))]

-----------------------------------------------------------------------------
(* Input: volumeInfo payloads *)

Str1(c) == <<c>>

IdentifierEntries ==
    {[type |-> "ISBN_10", identifier |-> Str1("1")],
     [type |-> "ISBN_10", identifier |-> Str1("2")],
     [type |-> "ISBN_13", identifier |-> Str1("3")],
     [type |-> "OTHER",   identifier |-> Str1("4")]}

\* every dict over the keys ks with the value v
Dicts(ks, v) == UNION {[S -> {v}] : S \in SUBSET ks}

\* the values a payload may hold under key k
PayloadValues(k) ==
    CASE k = "industryIdentifiers" -> SeqsUpTo(IdentifierEntries, MaxIds)
      [] k = "readingModes" -> Dicts({"text", "image", "pdf"}, FALSE)
      [] k = "imageLinks" ->
            Dicts({"thumbnail", "small_thumbnail", "smallThumbnail"}, Str1("u"))
      [] k \in {"pageCount", "ratingsCount", "averageRating"} -> {0}
      [] k \in {"categories", "description"} -> {<<>>}
      [] k = "authors" -> {<<Str1("a"), Str1("b")>>}
      [] k = "title" -> {<<"D", "u", "n", "e">>}
      [] OTHER -> {Str1(k)}

KeyOrder ==
    <<"title", "authors", "publisher", "publishedDate", "description",
      "industryIdentifiers", "readingModes", "pageCount", "printType",
      "categories", "averageRating", "ratingsCount", "maturityRating",
      "imageLinks", "language", "previewLink", "infoLink", "contentVersion">>

\* the payloads with at most n keys, all among the keys from KeyOrder[j] on
RECURSIVE PayloadsFrom(_, _)
PayloadsFrom(j, n) ==
    IF j > Len(KeyOrder) \/ n = 0 THEN {EmptyPayload}
    ELSE PayloadsFrom(j + 1, n) \cup
         {Put(pv[1], KeyOrder[j], pv[2]) :
             pv \in PayloadsFrom(j + 1, n - 1) \X PayloadValues(KeyOrder[j])}

-----------------------------------------------------------------------------
(* The normalisation of one payload *)

Normalize ==
    /\ pc = "normalize"
    /\ book' = Some(from_google_book_api(data))
    /\ pc' = "normalized"
    /\ UNCHANGED <<data, error, log>>
    /\ UNCHANGED <<parseVars, fetchVars>>

NextNorm == Normalize

InitNorm ==
    /\ data \in PayloadsFrom(1, MaxKeys)
    /\ pc = "normalize"
    /\ file = <<>>
    /\ lines = 1
    /\ result = <<>>
    /\ book_titles = None
    /\ error = "none"
    /\ token = None
    /\ refreshes = 0
    /\ i = 0
    /\ requests = <<>>
    /\ responses = <<>>
    /\ pending = <<>>
    /\ yielded = <<>>
    /\ log = <<>>
    /\ book = None

SpecNorm == InitNorm /\ [][NextNorm]_vars

-----------------------------------------------------------------------------
(* Input: the answers of the Google Books endpoint *)

Dune == <<"D", "u", "n", "e">>
Emma == <<"E", "m", "m", "a">>
FrankHerbert == <<"F", "r", "a", "n", "k", " ", "H", "e", "r", "b", "e", "r", "t">>

ItemPayloads ==
    {[title |-> Dune, authors |-> <<FrankHerbert>>, infoLink |-> Str1("l")],
     [title |-> Emma, pageCount |-> 0]}

Items == {[volumeInfo |-> p] : p \in ItemPayloads}

\* response.json(): no "items" key, or an "items" array of at most MaxItems items
Bodies == {EmptyPayload} \cup {[items |-> s] : s \in SeqsUpTo(Items, MaxItems)}

StatusCodes == {200, 201, 404}

-----------------------------------------------------------------------------
(* _fetch_book_info *)

Pair(status_code, b) == [status |-> status_code, result |-> Some(b)]

\* variant: the first test also accepts a single item (<= 1 for == 0)
Yields_overlapping(status_code, body, b) ==
    IF status_code = 200
    THEN (IF "items" \notin DOMAIN body \/ Len(body["items"]) <= 1
             THEN <<Pair(status_code, b)>> ELSE <<>>)
         \o
         (IF "items" \in DOMAIN body /\ Len(body["items"]) = 1
             THEN <<Pair(status_code,
                         from_google_book_api(body["items"][1]["volumeInfo"]))>>
             ELSE <<>>)
         \o
         (IF "items" \in DOMAIN body /\ Len(body["items"]) > 1
             THEN <<Pair(status_code,
                         from_google_book_api(body["items"][1]["volumeInfo"]))>>
             ELSE <<>>)
    ELSE <<Pair(status_code, b)>>

\* variant: of several items the last one is taken
Yields_last_item(status_code, body, b) ==
    IF status_code = 200
    THEN IF "items" \notin DOMAIN body \/ Len(body["items"]) = 0
            THEN <<Pair(status_code, b)>>
         ELSE <<Pair(status_code,
                     from_google_book_api(
                         body["items"][Len(body["items"])]["volumeInfo"]))>>
    ELSE <<Pair(status_code, b)>>

\* variant: a response other than 200 yields nothing
Yields_skips_failed(status_code, body, b) ==
    IF status_code = 200
    THEN IF "items" \notin DOMAIN body \/ Len(body["items"]) = 0
            THEN <<Pair(status_code, b)>>
         ELSE <<Pair(status_code,
                     from_google_book_api(body["items"][1]["volumeInfo"]))>>
    ELSE <<>>

\* lines 166-180: the pairs one pass of the for loop yields, in order
Yields(status_code, body, b) ==
    IF status_code = 200
    THEN (IF "items" \notin DOMAIN body \/ Len(body["items"]) = 0
             THEN <<Pair(status_code, b)>> ELSE <<>>)
         \o
         (IF "items" \in DOMAIN body /\ Len(body["items"]) = 1
             THEN <<Pair(status_code,
                         from_google_book_api(body["items"][1]["volumeInfo"]))>>
             ELSE <<>>)
         \o
         (IF "items" \in DOMAIN body /\ Len(body["items"]) > 1
             THEN <<Pair(status_code,
                         from_google_book_api(body["items"][1]["volumeInfo"]))>>
             ELSE <<>>)
    ELSE <<Pair(status_code, b)>>

books == book_titles[1]

\* lines 147-152, run when main first asks the generator for a pair
Authenticate ==
    /\ pc = "fetch"
    /\ refreshes' = refreshes + 1
    /\ token' = Some(refreshes + 1)
    /\ i' = 1
    /\ pc' = "loop"
    /\ UNCHANGED <<requests, responses, pending, yielded, error, log>>
    /\ UNCHANGED <<parseVars, normVars>>

\* lines 148-152: loading the credentials or refreshing them raises
AuthenticateRaises ==
    /\ pc = "fetch"
    /\ error' = "RefreshError"
    /\ pc' = "error"
    /\ UNCHANGED <<log>>
    /\ UNCHANGED <<parseVars, fetchVars, normVars>>

\* variant: the credentials are refreshed before every request
SendGet_refreshes ==
    /\ pc = "loop"
    /\ i <= Len(book_titles[1])
    /\ refreshes' = refreshes + 1
    /\ token' = Some(refreshes + 1)
    /\ requests' = Append(requests, [book |-> book_titles[1][i], token |-> token'])
    /\ pc' = "get"
    /\ UNCHANGED <<i, responses, pending, yielded, error, log>>
    /\ UNCHANGED <<parseVars, normVars>>

\* lines 154-162: the request for the next book is sent
SendGet ==
    /\ pc = "loop"
    /\ i <= Len(books)
    /\ requests' = Append(requests, [book |-> books[i], token |-> token])
    /\ pc' = "get"
    /\ UNCHANGED <<token, refreshes, i, responses, pending, yielded, error, log>>
    /\ UNCHANGED <<parseVars, normVars>>

\* lines 158-180: requests.get returns a response, the pass classifies it
Respond ==
    /\ pc = "get"
    /\ \E status_code \in StatusCodes, body \in Bodies :
          /\ responses' = Append(responses, [status |-> status_code, body |-> body])
          /\ pending' = Yields(status_code, body, books[i])
    /\ pc' = "yield"
    /\ UNCHANGED <<token, refreshes, i, requests, yielded, error, log>>
    /\ UNCHANGED <<parseVars, normVars>>

\* lines 158-162: requests.get raises (timeout, connection error)
GetRaises ==
    /\ pc = "get"
    /\ error' = "RequestException"
    /\ pc' = "error"
    /\ UNCHANGED <<log>>
    /\ UNCHANGED <<parseVars, fetchVars, normVars>>

-----------------------------------------------------------------------------
(* main *)

\* lines 215-218
OutcomeLine(response_status_code, book_out) ==
    IF response_status_code = 200 /\ book_out # None
        THEN LogLine("FOUND", book_out[1]["title"])
        ELSE LogLine("NOT FOUND", book_out[1]["title"])

\* a yield of the generator and the body of main's for loop, lines 212-218
YieldAndLog ==
    /\ pc = "yield"
    /\ pending # <<>>
    /\ yielded' = Append(yielded, Head(pending))
    /\ log' = Append(log, OutcomeLine(Head(pending).status, Head(pending).result))
    /\ pending' = Tail(pending)
    /\ UNCHANGED <<pc, token, refreshes, i, requests, responses, error>>
    /\ UNCHANGED <<parseVars, normVars>>

\* variant: the generator does not wait for main to take the pair
NextBook_eager ==
    /\ pc = "yield"
    /\ i' = i + 1
    /\ pc' = "loop"
    /\ UNCHANGED <<token, refreshes, requests, responses, pending, yielded, error, log>>
    /\ UNCHANGED <<parseVars, normVars>>

\* main asks for the next pair: the generator resumes and moves to the next book
NextBook ==
    /\ pc = "yield"
    /\ pending = <<>>
    /\ i' = i + 1
    /\ pc' = "loop"
    /\ UNCHANGED <<token, refreshes, requests, responses, pending, yielded, error, log>>
    /\ UNCHANGED <<parseVars, normVars>>

\* the generator is exhausted; lines 219-220
Finish ==
    /\ pc = "loop"
    /\ i > Len(books)
    /\ log' = Append(log, LogLine("ELAPSED", None))
    /\ pc' = "done"
    /\ UNCHANGED <<error>>
    /\ UNCHANGED <<parseVars, fetchVars, normVars>>

Next ==
    \/ ParseRecord
    \/ ParseReturn
    \/ ParseRaise
    \/ Authenticate
    \/ AuthenticateRaises
    \/ SendGet
    \/ Respond
    \/ GetRaises
    \/ YieldAndLog
    \/ NextBook
    \/ Finish

\* every file of at most MaxMainLines lines of MainLines
Init == file \in SeqsUpTo(MainLines, MaxMainLines) /\ InitRun

Spec == Init /\ [][Next]_vars

-----------------------------------------------------------------------------
(* Vocabulary of the properties *)

IsOutcome(l) == l.kind \in {"FOUND", "NOT FOUND"}
IsElapsed(l) == l.kind = "ELAPSED"
OutcomeLines == SelectSeq(log, IsOutcome)
ElapsedLines == SelectSeq(log, IsElapsed)

HasItems(body) == "items" \in DOMAIN body /\ Len(body["items"]) > 0

\* the lines of the file that hold text, and what they hold, written out by hand
BlankLines == {LineNewline, LineSpaces}
HoldsText(l) == l \notin BlankLines
TextLines == SelectSeq(file, HoldsText)
TrimmedText(l) ==
    CASE l = LineDune  -> Dune
      [] l = LineEmma  -> Emma
      [] l = LineABA   -> <<"A", ";", " ", "B", ";", " ", "A">>
      [] l = LineFrank -> FrankHerbert
NamesOf(l) ==
    CASE l = LineDune  -> {Dune}
      [] l = LineEmma  -> {Emma}
      [] l = LineABA   -> {<<"A">>, <<"B">>}
      [] l = LineFrank -> {FrankHerbert}

\* the records of the two payloads the endpoint answers with, written out by hand
NoGroups(b) ==
    [b EXCEPT
        !["industryIdentifiers"] = Some([isbn_10 |-> None, isbn_13 |-> None]),
        !["readingModes"] = Some([text |-> None, image |-> None]),
        !["imageLinks"] = Some([thumbnail |-> None, small_thumbnail |-> None])]
RecordOf(item) ==
    IF item["volumeInfo"]["title"] = Dune
        THEN NoGroups(Book(Dune, <<FrankHerbert>>))
        ELSE NoGroups([Book(Emma, <<>>) EXCEPT !["authors"] = None,
                                               !["pageCount"] = Some(0)])

NestedFields == {"industryIdentifiers", "readingModes", "imageLinks"}
OptionalFields == BookFields \ {"title", "authors"}

-----------------------------------------------------------------------------
(* C1: run to exhaustion, the generator has yielded exactly one pair per    *)
(* stub; at every moment the k-th pair yielded answers the k-th request,    *)
(* which was made for the k-th stub of the list: it carries the status of   *)
(* the k-th response and either that stub or a record of that response.     *)
C1_OnePairPerStubInOrder ==
    /\ pc = "done" => Len(yielded) = Len(books)
    /\ book_titles # None => Len(yielded) <= Len(books)
    /\ Len(yielded) <= Len(responses)
    /\ Len(responses) <= Len(yielded) + 1
    /\ \A k \in 1..Len(yielded) :
          /\ requests[k].book = books[k]
          /\ yielded[k].status = responses[k].status
          /\ \/ yielded[k].result = Some(books[k])
             \/ /\ HasItems(responses[k].body)
                /\ yielded[k].result = Some(RecordOf(responses[k].body["items"][1]))

C1_Witness ==
    /\ pc = "done"
    /\ Len(books) = 2
    /\ books[1] # books[2]
    /\ responses[1].status = 200
    /\ "items" \in DOMAIN responses[1].body
    /\ Len(responses[1].body["items"]) = 1
    /\ responses[2].status = 200
    /\ "items" \notin DOMAIN responses[2].body

C3_FoundOnlyForRecords ==
    \A k \in 1..Len(OutcomeLines) :
        OutcomeLines[k] =
            IF responses[k].status = 200 /\ HasItems(responses[k].body)
                THEN LogLine("FOUND", RecordOf(responses[k].body["items"][1])["title"])
                ELSE LogLine("NOT FOUND", books[k]["title"])

(* C4 as stated: a failed request (an exception of requests.get, or a       *)
(* response other than 200) never ends the run: the stub is reported as     *)
(* not found and a finished run has N outcomes and the elapsed-time line.   *)
C4_RequestFailureNeverFatal ==
    /\ error # "RequestException"
    /\ \A k \in 1..Len(OutcomeLines) :
          responses[k].status # 200 =>
              OutcomeLines[k] = LogLine("NOT FOUND", books[k]["title"])
    /\ pc = "done" => Len(OutcomeLines) = Len(books)

(* C4 amended: a response other than 200 for stub k yields (status, stub k),*)
(* is logged as NOT FOUND with the stub's title, and does not end the run:  *)
(* the run ends with an exception of requests.get only when the last        *)
(* request got no response, and a finished run has N outcomes followed by   *)
(* the elapsed-time line. An exception of requests.get for stub k is not    *)
(* caught: the run ends there with k-1 outcomes and no elapsed-time line.   *)
C4_OnlyResponsesAreNonFatal ==
    /\ \A k \in 1..Len(yielded) :
          responses[k].status # 200 =>
              /\ yielded[k] = [status |-> responses[k].status,
                               result |-> Some(books[k])]
              /\ OutcomeLines[k] = LogLine("NOT FOUND", books[k]["title"])
    /\ pc = "done" =>
          /\ Len(OutcomeLines) = Len(books)
          /\ log[Len(log)] = LogLine("ELAPSED", None)
    /\ error = "RequestException" =>
          /\ pc = "error"
          /\ Len(requests) = i
          /\ Len(responses) = i - 1
          /\ Len(yielded) = i - 1
          /\ Len(OutcomeLines) = i - 1
          /\ ElapsedLines = <<>>
    /\ (pc = "error" /\ book_titles # None /\ refreshes = 1) =>
          (error = "RequestException" /\ Len(requests) = Len(responses) + 1)

C4_Witness ==
    /\ pc = "done"
    /\ Len(books) = 2
    /\ responses[1].status = 404
    /\ responses[2].status = 201
    /\ Len(OutcomeLines) = 2

(* C5: when the text lines of the file pair up, the parser returns one stub *)
(* per pair, in file order: its title is the trimmed title line, its        *)
(* authors are the distinct "; "-separated names of the authors line, each  *)
(* once, and all its other fields are None; the blank lines of the file     *)
(* have no part in the result.                                              *)
C5_OneStubPerPair ==
    (pc # "parse" /\ Len(TextLines) % 2 = 0) =>
        /\ pc = "fetch"
        /\ book_titles = Some(result)
        /\ 2 * Len(result) = Len(TextLines)
        /\ \A j \in 1..Len(result) :
              /\ result[j]["title"] = Some(TrimmedText(TextLines[2 * j - 1]))
              /\ Range(result[j]["authors"][1]) = NamesOf(TextLines[2 * j])
              /\ Len(result[j]["authors"][1]) = Cardinality(NamesOf(TextLines[2 * j]))
              /\ \A f \in OptionalFields : result[j][f] = None

C5_Witness ==
    /\ pc = "fetch"
    /\ Len(result) = 2
    /\ file[1] \in BlankLines
    /\ file[Len(file)] = LineABA
    /\ Len(result[2]["authors"][1]) = 2

(* C6: when the text lines of the file do not pair up, the parser raises:   *)
(* no list reaches main, not even the stubs of the complete pairs, and the  *)
(* run ends before any refresh, request, pair or log line.                  *)
C6_DanglingTitleRaises ==
    (pc # "parse" /\ Len(TextLines) % 2 = 1) =>
        /\ pc = "error"
        /\ error = "AttributeError"
        /\ book_titles = None
        /\ refreshes = 0
        /\ token = None
        /\ requests = <<>>
        /\ yielded = <<>>
        /\ log = <<>>

C6_Witness ==
    /\ pc = "error"
    /\ error = "AttributeError"
    /\ Len(result) = 1
    /\ file[Len(file)] \in BlankLines

(* C7 as stated: every optional field whose key the payload lacks is None   *)
(* in the record, the three nested groups included.                         *)
C7_MissingKeyGivesNone ==
    pc = "normalized" =>
        \A f \in OptionalFields : f \notin DOMAIN data => book[1][f] = None

(* C7 amended: an optional field other than the three nested groups is None *)
(* when the payload lacks its key; a nested group whose key is missing is   *)
(* not None but a group object all of whose members are None.               *)
C7_MissingKeyGivesNoneOrEmptyGroup ==
    pc = "normalized" =>
        /\ \A f \in OptionalFields \ NestedFields :
              f \notin DOMAIN data => book[1][f] = None
        /\ "industryIdentifiers" \notin DOMAIN data =>
              book[1]["industryIdentifiers"] = Some([isbn_10 |-> None, isbn_13 |-> None])
        /\ "readingModes" \notin DOMAIN data =>
              book[1]["readingModes"] = Some([text |-> None, image |-> None])
        /\ "imageLinks" \notin DOMAIN data =>
              book[1]["imageLinks"] = Some([thumbnail |-> None, small_thumbnail |-> None])

C7_Witness ==
    /\ pc = "normalized"
    /\ DOMAIN data = {"title", "infoLink"}
    /\ book[1]["pageCount"] = None
    /\ book[1]["readingModes"] # None

(* C8: the credentials are refreshed at most once, and exactly once before  *)
(* the lookup loop starts; every request carries the token of that one      *)
(* refresh; a failed refresh ends the run with no request and no pair.      *)
C8_OneRefreshBeforeRequests ==
    /\ refreshes <= 1
    /\ (pc \in {"loop", "get", "yield", "done"} \/ requests # <<>>) =>
          (refreshes = 1 /\ token = Some(1))
    /\ \A k \in 1..Len(requests) : requests[k].token = Some(1)
    /\ error = "RefreshError" =>
          /\ pc = "error"
          /\ refreshes = 0
          /\ requests = <<>>
          /\ yielded = <<>>
          /\ OutcomeLines = <<>>

C8_Witness ==
    /\ pc = "done"
    /\ Len(requests) = 2
    /\ requests[1].token = requests[2].token

\* the identifier of the last entry of ids whose type is t, if any
LastOfType(ids, t) ==
    LET hits == {k \in 1..Len(ids) : ids[k]["type"] = t}
    IN  IF hits = {} THEN None
        ELSE Some(ids[CHOOSE h \in hits : \A g \in hits : g <= h]["identifier"])

Member(d, k) == IF k \in DOMAIN d THEN Some(d[k]) ELSE None

(* C9: the record has exactly the fields of Book; a field other than the    *)
(* nested groups holds the payload's value (None without the key);          *)
(* industryIdentifiers holds the ISBN_10 and ISBN_13 identifiers and no     *)
(* other, readingModes the text and image flags, imageLinks the thumbnail   *)
(* and small_thumbnail links; keys outside the fields of Book change        *)
(* nothing in the record.                                                   *)
C9_OnlyRecognizedFields ==
    pc = "normalized" =>
        LET b == book[1]
            recognized == [k \in DOMAIN data \cap BookFields |-> data[k]]
        IN  /\ DOMAIN b = BookFields
            /\ \A f \in BookFields \ NestedFields : b[f] = Member(data, f)
            /\ b["industryIdentifiers"] =
                  IF "industryIdentifiers" \in DOMAIN data
                  THEN Some([isbn_10 |-> LastOfType(data["industryIdentifiers"], "ISBN_10"),
                             isbn_13 |-> LastOfType(data["industryIdentifiers"], "ISBN_13")])
                  ELSE Some([isbn_10 |-> None, isbn_13 |-> None])
            /\ b["readingModes"] =
                  IF "readingModes" \in DOMAIN data
                  THEN Some([text  |-> Member(data["readingModes"], "text"),
                             image |-> Member(data["readingModes"], "image")])
                  ELSE Some([text |-> None, image |-> None])
            /\ b["imageLinks"] =
                  IF "imageLinks" \in DOMAIN data
                  THEN Some([thumbnail |-> Member(data["imageLinks"], "thumbnail"),
                             small_thumbnail |->
                                 Member(data["imageLinks"], "small_thumbnail")])
                  ELSE Some([thumbnail |-> None, small_thumbnail |-> None])
            /\ b = from_google_book_api(recognized)

C9_Witness ==
    /\ pc = "normalized"
    /\ "infoLink" \in DOMAIN data
    /\ "industryIdentifiers" \in DOMAIN data
    /\ Len(data["industryIdentifiers"]) = 2
    /\ data["industryIdentifiers"][1]["type"] = "OTHER"
    /\ data["industryIdentifiers"][2]["type"] = "ISBN_13"
    /\ book[1]["industryIdentifiers"][1].isbn_13 # None
    /\ book[1]["industryIdentifiers"][1].isbn_10 = None

(* C10: at most one request is without its response; the outcome line of    *)
(* stub k is logged after response k and before request k+1; the log is     *)
(* the count line, the outcome lines in input order and, once the run is    *)
(* done and only then, one elapsed-time line, which is the last line and    *)
(* follows all N outcome lines.                                             *)
C10_RequestsAndLinesAlternate ==
    /\ Len(requests) - Len(responses) \in {0, 1}
    /\ Len(OutcomeLines) <= Len(responses)
    /\ Len(requests) <= Len(OutcomeLines) + 1
    /\ \A k \in 1..Len(OutcomeLines) :
          /\ requests[k].book = books[k]
          /\ OutcomeLines[k].title = yielded[k].result[1]["title"]
    /\ book_titles # None =>
          log = <<LogLine("COUNT", None)>> \o OutcomeLines \o ElapsedLines
    /\ ElapsedLines = IF pc = "done" THEN <<LogLine("ELAPSED", None)>> ELSE <<>>
    /\ pc = "done" => Len(OutcomeLines) = Len(books)

C10_Witness ==
    /\ pc = "done"
    /\ Len(books) = 2
    /\ Len(log) = 4
    /\ log[2].title = Some(Dune)
    /\ log[3].title = Some(FrankHerbert)

====
